---- MODULE Spec2Model ----
(***************************************************************************)
(* HellfireOS (t1_sistemas_embarcados): the kernel entry point main(), the *)
(* idle task, the polling server, the aperiodic task generator and the     *)
(* dummy aperiodic task of sys/kernel/main.c, and the sender/receiver pair *)
(* of app/noc_test/noc_test.c.                                             *)
(*                                                                         *)
(* Program positions are named after source lines: pc[t] = "L128" means    *)
(* that task t is about to execute line 128 of main.c.                     *)
(*                                                                         *)
(* hf_spawn, hf_yield, delay_ms, the queue primitives, the tick dispatcher *)
(* and hf_sendack/hf_recvack are not part of the sources at hand; they are *)
(* modelled from the design document (sections 4.1-4.8).                   *)
(***************************************************************************)
EXTENDS Integers, Sequences, FiniteSets, TLC

\* ------------------------------------------------------------- bounds
\* Timer ticks followed when a tick may preempt a task anywhere (Spec).
MaxTick == 3
\* Timer ticks followed when ticks fall between the short code paths (SpecPeriodic).
MaxPeriodTick == 22
\* TCB slots left for aperiodic tasks once the four boot tasks are spawned.
MaxApTasks == 3
\* Aperiodic arrivals other than the generator's carry a capacity 0..MaxArrivalCap.
MaxArrivalCap == 1
\* Iterations of dummy_task's loop covered by one step of the model.
DummyStride == 20000
\* Messages the sender of noc_test sends.
MaxMsg == 2
\* Width in bits of the machine words of the division routines (int64_t and
\* int32_t in the source).
WordBits == 4
\* Retransmissions of one hf_sendack (the reliable-send retry limit).
RetryLimit == 2

\* ------------------------------------------------- program constants
\* hf_spawn(polling_server_task, 20, 6, 20, ...)
ServerPeriod == 20
ServerCapacity == 6
\* hf_spawn(aperiodic_task_generator, 10, 2, 10, ...)
GeneratorPeriod == 10
GeneratorCapacity == 2
\* hf_spawn(dummy_task, 0, 18, 0, ...)
DummyCapacity == 18
\* for(i=0;i<20000;++i){}
DummyLoopLimit == 20000

\* The task bodies main() and app_main() spawn at boot.
BootEntries == {"idletask", "polling_server_task", "aperiodic_task_generator", "app_task"}

\* Number of TCB slots.
MAX_TASKS == Cardinality(BootEntries) + MaxApTasks

Ids == 0 .. (MAX_TASKS - 1)

VARIABLES
  \* main()
  bootpc,              \* position of main(): "L195" .. "L216", "run", "panic", "undefined"
  panic_code,          \* argument of panic(), "none" while the kernel has not panicked
  boot_errors,         \* entries whose hf_spawn returned an error during boot
  \* kernel state
  ie,                  \* interrupts enabled (_di / _ei)
  krnl_schedule,       \* 0 while the scheduler is locked (hf_schedlock(1)), 1 otherwise
  krnl_current_task,
  tick_time,           \* krnl_pcb.tick_time
  tcb,                 \* krnl_tcb: id -> [ptask, state, period, capacity, capacity_rem]
  pc,                  \* saved or current position of each task (its task_context)
  krnl_aperiodic_queue,
  \* locals of polling_server_task
  SERVER_CAPACITY,
  server_fuel,
  next_aperiodic,
  status,
  di_pending,          \* the server has executed _di() and no _ei(status) since
  \* local of dummy_task, per task
  dummy_i,
  \* history of the polling server, in server periods (tick_time \div ServerPeriod)
  last_poll,           \* period of the last pass through line 121, -1 before the first
  last_refill,         \* period of the last execution of line 122, -1 before the first
  yield_period,        \* period of the last yield on an empty queue that no refill followed, else -1
  arrivals,            \* number of aperiodic arrivals admitted so far
  \* noc_test: sender (CPU 2), receiver (CPU 3) and the NoC between them
  snd_pc, snd_msg, snd_seq, snd_tries, snd_val,
  net_data, net_ack,
  rcv_pc, rcv_seen, rcv_buf,
  delivered, acked_ok,
  \* libc: one call of the 64-bit and 32-bit signed division routines
  divmod               \* [pc, num, den, quot, rem, rem32]

\* The state outside the kernel and outside noc_test.
libc_vars == <<divmod>>

kernel_vars == <<bootpc, panic_code, boot_errors, ie, krnl_schedule, krnl_current_task,
                 tick_time, tcb, pc, krnl_aperiodic_queue, SERVER_CAPACITY, server_fuel,
                 next_aperiodic, status, di_pending, dummy_i, last_poll, last_refill, yield_period,
                 arrivals, libc_vars>>

noc_vars == <<snd_pc, snd_msg, snd_seq, snd_tries, snd_val, net_data, net_ack,
              rcv_pc, rcv_seen, rcv_buf, delivered, acked_ok, libc_vars>>

vars == <<kernel_vars, noc_vars>>

boot_vars == <<bootpc, panic_code, boot_errors>>
ps_locals == <<SERVER_CAPACITY, server_fuel, next_aperiodic, status, di_pending>>
hist_vars == <<last_poll, last_refill, yield_period, arrivals>>

\* ------------------------------------------------------------ helpers
Lowest(S) == CHOOSE i \in S : \A j \in S : i <= j

Min(a, b) == IF a <= b THEN a ELSE b

\* The server period a tick count falls in.
PeriodOf(t) == t \div ServerPeriod

\* ------------------------------------------------------------ TCB table
\* A free slot, as clear_tcb leaves it.
FreeTcb == [ptask |-> "none", state |-> "TASK_IDLE", period |-> 0, capacity |-> 0,
            capacity_rem |-> 0]

clear_tcb == [i \in Ids |-> FreeTcb]

FreeSlots(T) == {i \in Ids : T[i].ptask = "none"}

\* First line of a task body.
EntryLabel(entry) ==
  CASE entry = "idletask" -> "L99"
    [] entry = "polling_server_task" -> "L111"
    [] entry = "aperiodic_task_generator" -> "L169"
    [] entry = "dummy_task" -> "L162"
    [] OTHER -> "body"

\* hf_spawn(entry, period, capacity, deadline, name, stack): the lowest free slot
\* becomes a ready task; with no free slot the table is left as it is.
hf_spawn(T, entry, period, capacity) ==
  IF FreeSlots(T) = {} THEN T
  ELSE [T EXCEPT ![Lowest(FreeSlots(T))] =
          [ptask |-> entry, state |-> "TASK_READY", period |-> period,
           capacity |-> capacity, capacity_rem |-> capacity]]

TaskOf(entry) == {i \in Ids : tcb[i].ptask = entry}

\* ---------------------------------------------------------- scheduler
\* Real-time tier: released jobs with capacity left; rate-monotonic order.
RtEligible(T) ==
  {i \in Ids : T[i].period > 0 /\ T[i].state = "TASK_READY" /\ T[i].capacity_rem > 0}

sched_rma(T) ==
  CHOOSE i \in RtEligible(T) :
    \A j \in RtEligible(T) :
      T[i].period < T[j].period \/ (T[i].period = T[j].period /\ i <= j)

\* Best-effort tier: the ready tasks of the run queue (aperiodic tasks wait in the
\* aperiodic queue instead and run only when the polling server hands over).
BeReady(T) ==
  {i \in Ids : T[i].ptask \in {"idletask", "app_task"} /\ T[i].state = "TASK_READY"}

\* The tasks the scheduler may pick; cur keeps running when nothing is ready.
Candidates(T, cur) ==
  IF RtEligible(T) # {} THEN {sched_rma(T)}
  ELSE IF BeReady(T) # {} THEN BeReady(T)
  ELSE {cur}

\* Tick accounting of the dispatcher: the running task becomes ready and, when it
\* is a real-time task, pays one tick of capacity; delayed tasks whose delay has
\* elapsed become ready; a task whose period elapses gets a new job.
Accounting(T, cur, now, wake) ==
  [i \in Ids |->
     LET e == T[i]
         st == IF i = cur /\ e.state = "TASK_RUNNING" THEN "TASK_READY"
               ELSE IF e.state = "TASK_DELAYED" /\ wake THEN "TASK_READY"
               ELSE e.state
         paid == IF i = cur /\ e.period > 0 /\ e.capacity_rem > 0
                 THEN e.capacity_rem - 1 ELSE e.capacity_rem
         rem == IF e.period > 0 /\ now % e.period = 0 THEN e.capacity ELSE paid
     IN [e EXCEPT !.state = st, !.capacity_rem = rem]]

\* ------------------------------------------------------------- main()
BootStep(from, to) ==
  /\ bootpc = from
  /\ bootpc' = to

\* _hardware_init();
BootHardwareInit ==
  /\ BootStep("L195", "L196")
  /\ UNCHANGED <<panic_code, boot_errors, ie, krnl_schedule, krnl_current_task, tick_time,
                 tcb, pc, krnl_aperiodic_queue, ps_locals, dummy_i, hist_vars, noc_vars>>

\* A boot that calls hf_schedlock(0) at line 196: the lock is released.
BootSchedunlock ==
  /\ BootStep("L196", "L197")
  /\ krnl_schedule' = 1
  /\ UNCHANGED <<panic_code, boot_errors, ie, krnl_current_task, tick_time,
                 tcb, pc, krnl_aperiodic_queue, ps_locals, dummy_i, hist_vars, noc_vars>>

\* hf_schedlock(1);
BootSchedlock ==
  /\ BootStep("L196", "L197")
  /\ krnl_schedule' = 0
  /\ UNCHANGED <<panic_code, boot_errors, ie, krnl_current_task, tick_time,
                 tcb, pc, krnl_aperiodic_queue, ps_locals, dummy_i, hist_vars, noc_vars>>

\* _di();
BootDi ==
  /\ BootStep("L197", "L199")
  /\ ie' = FALSE
  /\ UNCHANGED <<panic_code, boot_errors, krnl_schedule, krnl_current_task, tick_time,
                 tcb, pc, krnl_aperiodic_queue, ps_locals, dummy_i, hist_vars, noc_vars>>

\* print_config(); _vm_init(); clear_tcb(); clear_pcb();
BootClear ==
  /\ BootStep("L199", "L87")
  /\ tcb' = clear_tcb
  /\ krnl_current_task' = 0
  /\ krnl_schedule' = 0
  /\ tick_time' = 0
  /\ UNCHANGED <<panic_code, boot_errors, ie,
                 pc, krnl_aperiodic_queue, ps_locals, dummy_i, hist_vars, noc_vars>>

\* The four hf_queue_create calls of init_queues, in order.
QueueLabels == <<"L87", "L89", "L91", "L93", "L206">>

\* init_queues(): one hf_queue_create and its NULL check; created = FALSE is NULL.
BootQueueCreate ==
  \E k \in 1 .. 4, created \in BOOLEAN :
    /\ bootpc = QueueLabels[k]
    /\ IF created
       THEN /\ bootpc' = QueueLabels[k + 1]
            /\ UNCHANGED panic_code
       ELSE /\ bootpc' = "panic"
            /\ panic_code' = "PANIC_OOM"
    /\ krnl_aperiodic_queue' = IF k = 4 /\ created THEN <<>> ELSE krnl_aperiodic_queue
    /\ UNCHANGED <<boot_errors, ie, krnl_schedule, krnl_current_task, tick_time,
                   tcb, pc, ps_locals, dummy_i, hist_vars, noc_vars>>

\* _sched_init(); _irq_init(); _timer_init(); _timer_reset();
BootSchedInit ==
  /\ BootStep("L206", "L210")
  /\ UNCHANGED <<panic_code, boot_errors, ie, krnl_schedule, krnl_current_task, tick_time,
                 tcb, pc, krnl_aperiodic_queue, ps_locals, dummy_i, hist_vars, noc_vars>>

\* The hf_spawn calls of main() and app_main(): position, entry, period, capacity,
\* next position.
BootSpawns ==
  { <<"L210", "idletask", 0, 0, "L211">>,
    <<"L211", "polling_server_task", ServerPeriod, ServerCapacity, "L212">>,
    <<"L212", "aperiodic_task_generator", GeneratorPeriod, GeneratorCapacity, "L213">>,
    <<"L213", "app_task", 0, 0, "L216">> }

\* One hf_spawn of the boot sequence; ok = FALSE is an error return, which leaves
\* the table as it was. The call is an expression statement: main() goes on to its
\* next line whatever is returned. (Line 213-215: _device_init, _task_init, app_main.)
BootSpawn ==
  \E s \in BootSpawns, ok \in BOOLEAN :
    /\ bootpc = s[1]
    /\ boot_errors' = IF ok THEN boot_errors ELSE boot_errors \cup {s[2]}
    /\ bootpc' = s[5]
    /\ UNCHANGED panic_code
    /\ tcb' = IF ok THEN hf_spawn(tcb, s[2], s[3], s[4]) ELSE tcb
    /\ pc' = IF ok /\ FreeSlots(tcb) # {}
             THEN [pc EXCEPT ![Lowest(FreeSlots(tcb))] = EntryLabel(s[2])]
             ELSE pc
    /\ UNCHANGED <<ie, krnl_schedule, krnl_current_task, tick_time,
                   krnl_aperiodic_queue, ps_locals, dummy_i, hist_vars, noc_vars>>

\* _restoreexec(krnl_task->task_context, 1, krnl_current_task): the first dispatch.
\* With no task in the slot the jump target is not defined.
BootRestoreExec ==
  /\ bootpc = "L216"
  /\ IF tcb[krnl_current_task].ptask # "none"
     THEN /\ bootpc' = "run"
          /\ tcb' = [tcb EXCEPT ![krnl_current_task].state = "TASK_RUNNING"]
          /\ ie' = TRUE
     ELSE /\ bootpc' = "undefined"
          /\ UNCHANGED <<tcb, ie>>
  /\ UNCHANGED <<panic_code, boot_errors, krnl_schedule, krnl_current_task, tick_time,
                 pc, krnl_aperiodic_queue, ps_locals, dummy_i, hist_vars, noc_vars>>

\* ------------------------------------------------------ running tasks
\* The task the processor executes: krnl_current_task, except between line 148 and
\* the _restoreexec of line 155, where the polling server has named the aperiodic
\* task as current and is still executing itself.
HandingOver == {i \in Ids : tcb[i].ptask = "polling_server_task" /\ pc[i] = "L149"}

OnCpu(t) == IF HandingOver # {} THEN t \in HandingOver ELSE t = krnl_current_task

\* Task t, whose body is entry, is executing and stands at label.
At(t, entry, label) ==
  /\ bootpc = "run"
  /\ boot_errors = {}
  /\ OnCpu(t)
  /\ tcb[t].ptask = entry
  /\ pc[t] = label

Goto(t, label) == pc' = [pc EXCEPT ![t] = label]

\* The scheduler entered from task context (hf_yield, delay_ms): task t leaves the
\* processor in state st and resumes at label; n is the task picked.
Reschedule(t, st, label, n) ==
  LET T == [tcb EXCEPT ![t].state = st]
  IN /\ n \in Candidates(T, t)
     /\ tcb' = [T EXCEPT ![n].state = "TASK_RUNNING"]
     /\ krnl_current_task' = n
     /\ Goto(t, label)
     /\ ie' = TRUE

\* idletask, line 99-102: hf_schedlock(0); then for (;;) _cpu_idle();
IdleUnlock ==
  \E t \in Ids :
    /\ At(t, "idletask", "L99")
    /\ krnl_schedule' = 1
    /\ Goto(t, "L105")
    /\ UNCHANGED <<boot_vars, ie, krnl_current_task, tick_time, tcb,
                   krnl_aperiodic_queue, ps_locals, dummy_i, hist_vars, noc_vars>>

\* ------------------------------------------------ polling_server_task
\* Line 111-115: SERVER_CAPACITY = polling_task->capacity; server_fuel = SERVER_CAPACITY;
PsInit ==
  \E t \in Ids :
    /\ At(t, "polling_server_task", "L111")
    /\ SERVER_CAPACITY' = tcb[t].capacity
    /\ server_fuel' = tcb[t].capacity
    /\ Goto(t, "L121")
    /\ UNCHANGED <<boot_vars, ie, krnl_schedule, krnl_current_task, tick_time, tcb,
                   krnl_aperiodic_queue, next_aperiodic, status, di_pending, dummy_i, hist_vars,
                   noc_vars>>

\* A loop top that leaves the fuel as it is.
RefillNever(fuel, cap) == fuel

\* Line 121-122: if(server_fuel == 0) server_fuel = SERVER_CAPACITY;
Refill(fuel, cap) == IF fuel = 0 THEN cap ELSE fuel

PsRefill ==
  \E t \in Ids :
    /\ At(t, "polling_server_task", "L121")
    /\ server_fuel' = Refill(server_fuel, SERVER_CAPACITY)
    /\ last_poll' = PeriodOf(tick_time)
    /\ last_refill' = IF server_fuel = 0 THEN PeriodOf(tick_time) ELSE last_refill
    /\ yield_period' = IF server_fuel = 0 THEN -1 ELSE yield_period
    /\ Goto(t, "L128")
    /\ UNCHANGED <<boot_vars, ie, krnl_schedule, krnl_current_task, tick_time, tcb,
                   krnl_aperiodic_queue, SERVER_CAPACITY, next_aperiodic, status, di_pending, dummy_i,
                   arrivals, noc_vars>>

\* hf_queue_count
hf_queue_count(q) == Len(q)

\* Line 128-131, queue empty: hf_yield(); continue;
PsYield ==
  \E t \in Ids, n \in Ids :
    /\ At(t, "polling_server_task", "L128")
    /\ hf_queue_count(krnl_aperiodic_queue) = 0
    /\ Reschedule(t, "TASK_READY", "L121", n)
    /\ yield_period' = PeriodOf(tick_time)
    /\ UNCHANGED <<boot_vars, krnl_schedule, tick_time, krnl_aperiodic_queue, ps_locals,
                   dummy_i, last_poll, last_refill, arrivals, noc_vars>>

\* Line 128, queue not empty.
PsPoll ==
  \E t \in Ids :
    /\ At(t, "polling_server_task", "L128")
    /\ hf_queue_count(krnl_aperiodic_queue) # 0
    /\ Goto(t, "L133")
    /\ UNCHANGED <<boot_vars, ie, krnl_schedule, krnl_current_task, tick_time, tcb,
                   krnl_aperiodic_queue, ps_locals, dummy_i, hist_vars, noc_vars>>

\* polling_server_scheduler(): the head of the aperiodic queue, removed from it.
polling_server_scheduler(q) == [task |-> Head(q), queue |-> Tail(q)]

\* Line 133: next_aperiodic = polling_server_scheduler();
PsSelect ==
  \E t \in Ids :
    /\ At(t, "polling_server_task", "L133")
    /\ krnl_aperiodic_queue # <<>>
    /\ next_aperiodic' = polling_server_scheduler(krnl_aperiodic_queue).task
    /\ krnl_aperiodic_queue' = polling_server_scheduler(krnl_aperiodic_queue).queue
    /\ Goto(t, "L135")
    /\ UNCHANGED <<boot_vars, ie, krnl_schedule, krnl_current_task, tick_time, tcb,
                   SERVER_CAPACITY, server_fuel, status, di_pending, dummy_i, hist_vars, noc_vars>>

\* hf_queue_addtail: fails, leaving the queue as it is, when the queue is full.
hf_queue_addtail(q, e) == IF Len(q) < MAX_TASKS THEN Append(q, e) ELSE q

\* A service step that charges the fuel only when it covers the whole capacity.
ServeFuelKept(fuel, capacity) == IF fuel >= capacity THEN fuel - capacity ELSE fuel

\* Line 135-142: what one service does to the fuel, to the capacity of the
\* descriptor served and to the queue.
ServeFuel(fuel, capacity) == IF fuel >= capacity THEN fuel - capacity ELSE 0

\* A service step that writes off the capacity it could not cover.
ServeCapacitySpent(fuel, capacity) == IF fuel >= capacity THEN capacity ELSE 0

ServeCapacity(fuel, capacity) == IF fuel >= capacity THEN capacity ELSE capacity - fuel

ServeQueue(fuel, capacity, q, e) ==
  IF fuel >= capacity THEN q ELSE hf_queue_addtail(q, e)

PsServe ==
  \E t \in Ids :
    /\ At(t, "polling_server_task", "L135")
    /\ LET c == tcb[next_aperiodic].capacity
       IN /\ server_fuel' = ServeFuel(server_fuel, c)
          /\ tcb' = [tcb EXCEPT ![next_aperiodic].capacity = ServeCapacity(server_fuel, c)]
          /\ krnl_aperiodic_queue' =
               ServeQueue(server_fuel, c, krnl_aperiodic_queue, next_aperiodic)
    /\ Goto(t, "L144")
    /\ UNCHANGED <<boot_vars, ie, krnl_schedule, krnl_current_task, tick_time,
                   SERVER_CAPACITY, next_aperiodic, status, di_pending, dummy_i, hist_vars, noc_vars>>

\* Line 144: polling_task->state = TASK_READY;
PsSetReady ==
  \E t \in Ids :
    /\ At(t, "polling_server_task", "L144")
    /\ tcb' = [tcb EXCEPT ![t].state = "TASK_READY"]
    /\ Goto(t, "L145")
    /\ UNCHANGED <<boot_vars, ie, krnl_schedule, krnl_current_task, tick_time,
                   krnl_aperiodic_queue, ps_locals, dummy_i, hist_vars, noc_vars>>

\* Line 145: next_aperiodic->state = TASK_RUNNING;
PsSetRunning ==
  \E t \in Ids :
    /\ At(t, "polling_server_task", "L145")
    /\ tcb' = [tcb EXCEPT ![next_aperiodic].state = "TASK_RUNNING"]
    /\ Goto(t, "L146")
    /\ UNCHANGED <<boot_vars, ie, krnl_schedule, krnl_current_task, tick_time,
                   krnl_aperiodic_queue, ps_locals, dummy_i, hist_vars, noc_vars>>

\* Line 146: status = _di();
PsDi ==
  \E t \in Ids :
    /\ At(t, "polling_server_task", "L146")
    /\ status' = ie
    /\ di_pending' = TRUE
    /\ ie' = FALSE
    /\ Goto(t, "L147")
    /\ UNCHANGED <<boot_vars, krnl_schedule, krnl_current_task, tick_time, tcb,
                   krnl_aperiodic_queue, SERVER_CAPACITY, server_fuel, next_aperiodic,
                   dummy_i, hist_vars, noc_vars>>

\* Line 147-148: krnl_task = next_aperiodic; krnl_current_task = next_aperiodic->id;
PsSetCurrent ==
  \E t \in Ids :
    /\ At(t, "polling_server_task", "L147")
    /\ krnl_current_task' = next_aperiodic
    /\ Goto(t, "L149")
    /\ UNCHANGED <<boot_vars, ie, krnl_schedule, tick_time, tcb,
                   krnl_aperiodic_queue, ps_locals, dummy_i, hist_vars, noc_vars>>

\* Line 149-155, setjmp returning 0: the server's context is saved at line 149 and
\* _restoreexec enters the aperiodic task with interrupts enabled.
PsHandOver ==
  \E t \in Ids :
    /\ At(t, "polling_server_task", "L149")
    /\ Goto(t, "L150")
    /\ ie' = TRUE
    /\ UNCHANGED <<boot_vars, krnl_schedule, krnl_current_task, tick_time, tcb,
                   krnl_aperiodic_queue, ps_locals, dummy_i, hist_vars, noc_vars>>

\* Line 149-152, setjmp returning non-zero when the server is dispatched again:
\* continue; the _ei(status) after it is never executed.
PsResume ==
  \E t \in Ids :
    /\ At(t, "polling_server_task", "L150")
    /\ Goto(t, "L121")
    /\ UNCHANGED <<boot_vars, ie, krnl_schedule, krnl_current_task, tick_time, tcb,
                   krnl_aperiodic_queue, ps_locals, dummy_i, hist_vars, noc_vars>>

\* ------------------------------------------------- aperiodic arrivals
\* Admission of an aperiodic task, hf_spawn(dummy_task, 0, capacity, 0, ...): a task
\* with period 0 and a capacity enters the aperiodic queue. With no free slot
\* hf_spawn fails and nothing changes.
Admit(capacity) ==
  IF FreeSlots(tcb) = {}
  THEN UNCHANGED <<tcb, krnl_aperiodic_queue, dummy_i, arrivals>>
  ELSE LET i == Lowest(FreeSlots(tcb))
       IN /\ tcb' = hf_spawn(tcb, "dummy_task", 0, capacity)
          /\ krnl_aperiodic_queue' = hf_queue_addtail(krnl_aperiodic_queue, i)
          /\ dummy_i' = [dummy_i EXCEPT ![i] = 0]
          /\ arrivals' = arrivals + 1

\* aperiodic_task_generator, line 169-171: hf_spawn(dummy_task, 0, 18, 0, ...);
GenSpawn ==
  \E t \in Ids :
    /\ At(t, "aperiodic_task_generator", "L169")
    /\ Admit(DummyCapacity)
    /\ pc' = IF FreeSlots(tcb) = {} THEN [pc EXCEPT ![t] = "L172"]
             ELSE [pc EXCEPT ![t] = "L172", ![Lowest(FreeSlots(tcb))] = EntryLabel("dummy_task")]
    /\ UNCHANGED <<boot_vars, ie, krnl_schedule, krnl_current_task, tick_time,
                   ps_locals, last_poll, last_refill, yield_period, noc_vars>>

\* aperiodic_task_generator, line 172: delay_ms(random_delay); the task is delayed
\* and another one is dispatched.
GenDelay ==
  \E t \in Ids, n \in Ids :
    /\ At(t, "aperiodic_task_generator", "L172")
    /\ Reschedule(t, "TASK_DELAYED", "L169", n)
    /\ UNCHANGED <<boot_vars, krnl_schedule, tick_time, krnl_aperiodic_queue, ps_locals,
                   dummy_i, hist_vars, noc_vars>>

\* dummy_task, line 162: for(i=0;i<20000;++i){}  DummyStride iterations at a time.
DummyLoop ==
  \E t \in Ids :
    /\ At(t, "dummy_task", "L162")
    /\ IF dummy_i[t] < DummyLoopLimit
       THEN /\ dummy_i' = [dummy_i EXCEPT ![t] = Min(dummy_i[t] + DummyStride, DummyLoopLimit)]
            /\ UNCHANGED pc
       ELSE /\ Goto(t, "L163")
            /\ UNCHANGED dummy_i
    /\ UNCHANGED <<boot_vars, ie, krnl_schedule, krnl_current_task, tick_time, tcb,
                   krnl_aperiodic_queue, ps_locals, hist_vars, noc_vars>>

\* ----------------------------------------------------------- the tick
\* The capacities an aperiodic arrival other than the generator's may carry; -1 is
\* no arrival.
ArrivalCaps == 1 .. MaxArrivalCap

\* The timer interrupt and the dispatcher. wake: the delay of the delayed tasks has
\* elapsed. arrive: the capacity of an aperiodic task admitted in interrupt context
\* during this tick (the design's "inject"), -1 for none. n: the task dispatched.
\* While the scheduler is locked the tick is counted and nothing else.
TickEffects(wake, arrive, n, now) ==
  LET A == IF arrive = -1 THEN tcb ELSE hf_spawn(tcb, "dummy_task", 0, arrive)
      T == Accounting(A, krnl_current_task, now, wake)
      slot == Lowest(FreeSlots(tcb))
  IN /\ wake => \E i \in Ids : tcb[i].state = "TASK_DELAYED"
     /\ arrive # -1 => FreeSlots(tcb) # {}
     /\ IF krnl_schedule = 0
        THEN /\ n = krnl_current_task
             /\ ~wake
             /\ arrive = -1
             /\ UNCHANGED <<tcb, krnl_current_task>>
        ELSE /\ n \in Candidates(T, krnl_current_task)
             /\ tcb' = [T EXCEPT ![n].state = "TASK_RUNNING"]
             /\ krnl_current_task' = n
     /\ IF arrive = -1
        THEN UNCHANGED <<pc, krnl_aperiodic_queue, dummy_i, arrivals>>
        ELSE /\ pc' = [pc EXCEPT ![slot] = EntryLabel("dummy_task")]
             /\ krnl_aperiodic_queue' = hf_queue_addtail(krnl_aperiodic_queue, slot)
             /\ dummy_i' = [dummy_i EXCEPT ![slot] = 0]
             /\ arrivals' = arrivals + 1
     /\ ie' = TRUE

TickOutcome(wake, arrive, n) ==
  /\ tick_time' = tick_time + 1
  /\ TickEffects(wake, arrive, n, tick_time + 1)

TickStep(limit) ==
  \E wake \in BOOLEAN, arrive \in {-1} \cup ArrivalCaps, n \in Ids :
    /\ bootpc = "run"
    /\ boot_errors = {}
    /\ ie
    /\ tick_time < limit
    /\ TickOutcome(wake, arrive, n)
    /\ UNCHANGED <<boot_vars, krnl_schedule, ps_locals, last_poll, last_refill,
                   yield_period, noc_vars>>

\* A tick wherever interrupts are enabled.
Tick == TickStep(MaxTick)

\* The running task has run as far as it gets without a tick: the idle loop, the
\* application task's body, the end of dummy_task, or the server polling an empty
\* queue.
Quiescent ==
  LET t == krnl_current_task
  IN \/ tcb[t].ptask = "idletask" /\ pc[t] = "L105"
     \/ tcb[t].ptask = "app_task"
     \/ tcb[t].ptask = "dummy_task" /\ pc[t] = "L163"
     \/ /\ tcb[t].ptask = "polling_server_task"
        /\ pc[t] = "L128"
        /\ krnl_aperiodic_queue = <<>>

\* A tick that falls between the code paths of the kernel tasks, which are short
\* against the tick period.
TickQuiescent ==
  /\ Quiescent
  /\ TickStep(MaxPeriodTick)

\* ------------------------------------------------------ initial state
KernelInit ==
  /\ bootpc = "L195"
  /\ panic_code = "none"
  /\ boot_errors = {}
  /\ ie = FALSE
  /\ krnl_schedule = 0
  /\ krnl_current_task = 0
  /\ tick_time = 0
  /\ tcb = clear_tcb
  /\ pc = [i \in Ids |-> "none"]
  /\ krnl_aperiodic_queue = <<>>
  /\ SERVER_CAPACITY = 0
  /\ server_fuel = 0
  /\ next_aperiodic = 0
  /\ status = FALSE
  /\ di_pending = FALSE
  /\ dummy_i = [i \in Ids |-> 0]
  /\ last_poll = -1
  /\ last_refill = -1
  /\ yield_period = -1
  /\ arrivals = 0

NocIdle ==
  /\ snd_pc = "off"
  /\ snd_msg = 0
  /\ snd_seq = 0
  /\ snd_tries = 0
  /\ snd_val = "none"
  /\ net_data = {}
  /\ net_ack = {}
  /\ rcv_pc = "off"
  /\ rcv_seen = 0
  /\ rcv_buf = 0
  /\ delivered = <<>>
  /\ acked_ok = {}

\* No division routine has been called.
LibcIdle == divmod = [pc |-> "off", num |-> 0, den |-> 1, quot |-> 0, rem |-> 0, rem32 |-> 0]

Init == KernelInit /\ NocIdle /\ LibcIdle

Boot ==
  \/ BootHardwareInit \/ BootSchedlock \/ BootDi \/ BootClear \/ BootQueueCreate
  \/ BootSchedInit \/ BootSpawn \/ BootRestoreExec

PollingServer ==
  \/ PsInit \/ PsRefill \/ PsYield \/ PsPoll \/ PsSelect \/ PsServe \/ PsSetReady
  \/ PsSetRunning \/ PsDi \/ PsSetCurrent \/ PsHandOver \/ PsResume

Next ==
  \/ Boot
  \/ IdleUnlock
  \/ PollingServer
  \/ GenSpawn \/ GenDelay
  \/ DummyLoop
  \/ Tick

Spec == Init /\ [][Next]_vars

\* The same system over more than one server period, with ticks between the short
\* code paths only.
NextPeriodic ==
  \/ Boot
  \/ IdleUnlock
  \/ PollingServer
  \/ GenSpawn \/ GenDelay
  \/ DummyLoop
  \/ TickQuiescent

SpecPeriodic == Init /\ [][NextPeriodic]_vars


\* ------------------------------------------- end-to-end scenario 4
\* Number and capacity of the aperiodic tasks injected, and the tick of injection.
ScenarioTasks == 3
ScenarioCapacity == 2
ScenarioTick == 5

\* After boot with the idle task and the polling server only: the idle task has
\* been dispatched first and the scheduler is still locked.
ScenarioInit ==
  /\ LibcIdle
  /\ bootpc = "run"
  /\ panic_code = "none"
  /\ boot_errors = {}
  /\ ie = TRUE
  /\ krnl_schedule = 0
  /\ krnl_current_task = 0
  /\ tick_time = 0
  /\ tcb = [ hf_spawn(hf_spawn(clear_tcb, "idletask", 0, 0), "polling_server_task",
                      ServerPeriod, ServerCapacity)
             EXCEPT ![0].state = "TASK_RUNNING" ]
  /\ pc = [i \in Ids |-> IF i = 0 THEN EntryLabel("idletask")
                         ELSE IF i = 1 THEN EntryLabel("polling_server_task")
                         ELSE "none"]
  /\ krnl_aperiodic_queue = <<>>
  /\ SERVER_CAPACITY = 0
  /\ server_fuel = 0
  /\ next_aperiodic = 0
  /\ status = FALSE
  /\ di_pending = FALSE
  /\ dummy_i = [i \in Ids |-> 0]
  /\ last_poll = -1
  /\ last_refill = -1
  /\ yield_period = -1
  /\ arrivals = 0
  /\ NocIdle

\* The injection: at tick ScenarioTick, ScenarioTasks aperiodic tasks of capacity
\* ScenarioCapacity are admitted.
ScenarioInject ==
  /\ bootpc = "run"
  /\ ie
  /\ tick_time = ScenarioTick
  /\ arrivals < ScenarioTasks
  /\ Admit(ScenarioCapacity)
  /\ pc' = [pc EXCEPT ![Lowest(FreeSlots(tcb))] = EntryLabel("dummy_task")]
  /\ UNCHANGED <<boot_vars, ie, krnl_schedule, krnl_current_task, tick_time,
                 ps_locals, last_poll, last_refill, yield_period, noc_vars>>

\* A tick of the scenario: between the code paths, with no other arrival, and not
\* past the tick of injection before the injection is complete.
ScenarioTickStep ==
  \E n \in Ids :
    /\ bootpc = "run"
    /\ ie
    /\ Quiescent
    /\ tick_time < MaxPeriodTick
    /\ tick_time = ScenarioTick => arrivals = ScenarioTasks
    /\ TickOutcome(FALSE, -1, n)
    /\ UNCHANGED <<boot_vars, krnl_schedule, ps_locals, last_poll, last_refill,
                   yield_period, noc_vars>>

NextScenario ==
  \/ IdleUnlock
  \/ PollingServer
  \/ DummyLoop
  \/ ScenarioInject
  \/ ScenarioTickStep

SpecScenario == ScenarioInit /\ [][NextScenario]_vars


\* ------------------------------------------- the server in the long run
\* A quiescent tick with the tick count kept within one period of the server, of
\* which the generator's period is a divisor: the releases fall as they do with
\* the full count. The aperiodic tasks are the generator's.
TickLive ==
  \E wake \in BOOLEAN, n \in Ids :
    /\ Quiescent
    /\ bootpc = "run"
    /\ boot_errors = {}
    /\ ie
    /\ tick_time' = (tick_time + 1) % ServerPeriod
    /\ TickEffects(wake, -1, n, tick_time + 1)
    /\ UNCHANGED <<boot_vars, krnl_schedule, ps_locals, last_poll, last_refill,
                   yield_period, noc_vars>>

NextLive ==
  \/ Boot
  \/ IdleUnlock
  \/ PollingServer
  \/ GenSpawn
  \/ GenDelay
  \/ DummyLoop
  \/ TickLive

\* The running task executes and the timer keeps interrupting: the polling
\* server, a real-time task, is dispatched again and again.
SpecLive ==
  Init /\ [][NextLive]_vars /\ WF_vars(NextLive) /\ SF_vars(TickLive)

\* ------------------------------------------------------------ noc_test
\* A call of hf_sendack without a timeout.
SendAckNoTimeout ==
  [target_cpu |-> 3, target_port |-> 5000, size |-> 1500, channel |-> 0, timeout_ms |-> 0]

\* noc_test.c line 15: hf_sendack(3, 5000, buf, sizeof(buf), 0, 500);
SendAckArgs ==
  [target_cpu |-> 3, target_port |-> 5000, size |-> 1500, channel |-> 0, timeout_ms |-> 500]

\* noc_test.c line 14: sprintf(buf, "... msg %d ...", ..., msg++, ...): the text sent
\* is determined by the counter, which is then incremented.
SenderBuf(msg) == [cpu |-> 2, msg |-> msg, size |-> SendAckArgs.size]

\* A sender whose counter stays: every message has the same text.
SenderSameMsg(msg) == msg

SenderNextMsg(msg) == msg + 1

\* The data frame of a message: its sequence number and its payload.
DataFrame(seq, buf) == [seq |-> seq, buf |-> buf]

\* sender, line 10-11: if (hf_comm_create(hf_selfid(), 1000, 0)) panic(0xff);
\* receiver, line 26-27: the same on port 5000. created = FALSE is an error return.
SndCommCreate ==
  \E created \in BOOLEAN :
    /\ snd_pc = "L10"
    /\ snd_pc' = IF created THEN "L14" ELSE "panic"
    /\ UNCHANGED <<kernel_vars, snd_msg, snd_seq, snd_tries, snd_val, net_data, net_ack,
                   rcv_pc, rcv_seen, rcv_buf, delivered, acked_ok>>

RcvCommCreate ==
  \E created \in BOOLEAN :
    /\ rcv_pc = "L26"
    /\ rcv_pc' = IF created THEN "L30" ELSE "panic"
    /\ UNCHANGED <<kernel_vars, snd_pc, snd_msg, snd_seq, snd_tries, snd_val, net_data,
                   net_ack, rcv_seen, rcv_buf, delivered, acked_ok>>

\* sender, line 14: the message is formatted into buf, msg++.
SndFormat ==
  /\ snd_pc = "L14"
  /\ snd_msg < MaxMsg
  /\ snd_msg' = SenderNextMsg(snd_msg)
  /\ snd_pc' = "L15"
  /\ UNCHANGED <<kernel_vars, snd_seq, snd_tries, snd_val, net_data, net_ack,
                 rcv_pc, rcv_seen, rcv_buf, delivered, acked_ok>>

\* The message the sender is sending: the one formatted before msg++.
SndCurrent == SenderBuf(snd_msg - 1)

\* hf_sendack, entry: the message gets a new sequence number and is transmitted.
SndTransmit ==
  /\ snd_pc = "L15"
  /\ snd_seq' = snd_seq + 1
  /\ snd_tries' = 0
  /\ net_data' = net_data \cup {DataFrame(snd_seq + 1, SndCurrent)}
  /\ snd_pc' = "wait"
  /\ UNCHANGED <<kernel_vars, snd_msg, snd_val, net_ack,
                 rcv_pc, rcv_seen, rcv_buf, delivered, acked_ok>>

\* hf_sendack, waiting: the ACK frame of this sequence number arrives; OK is returned.
SndAck ==
  /\ snd_pc = "wait"
  /\ snd_seq \in net_ack
  /\ net_ack' = net_ack \ {snd_seq}
  /\ snd_val' = "OK"
  /\ acked_ok' = acked_ok \cup {SndCurrent}
  /\ snd_pc' = "L16"
  /\ UNCHANGED <<kernel_vars, snd_msg, snd_seq, snd_tries, net_data,
                 rcv_pc, rcv_seen, rcv_buf, delivered>>

\* hf_sendack: an ACK frame of another sequence number is discarded.
SndDiscardAck ==
  \E a \in net_ack :
    /\ a # snd_seq
    /\ net_ack' = net_ack \ {a}
    /\ UNCHANGED <<kernel_vars, snd_pc, snd_msg, snd_seq, snd_tries, snd_val, net_data,
                   rcv_pc, rcv_seen, rcv_buf, delivered, acked_ok>>

\* hf_sendack waits for the ACK only as long as a timeout is given.
SndTimesOut(args) == args.timeout_ms > 0

\* hf_sendack retransmits as long as the retry limit is not reached.
SndMayRetry(tries) == tries < RetryLimit

\* hf_sendack, waiting: timeout_ms elapse without the ACK: the message is
\* retransmitted, or with the retries used up COMM_TIMEOUT is returned.
SndTimeout ==
  /\ snd_pc = "wait"
  /\ SndTimesOut(SendAckArgs)
  /\ IF SndMayRetry(snd_tries)
     THEN /\ snd_tries' = snd_tries + 1
          /\ net_data' = net_data \cup {DataFrame(snd_seq, SndCurrent)}
          /\ UNCHANGED <<snd_pc, snd_val>>
     ELSE /\ snd_val' = "COMM_TIMEOUT"
          /\ snd_pc' = "L16"
          /\ UNCHANGED <<snd_tries, net_data>>
  /\ UNCHANGED <<kernel_vars, snd_msg, snd_seq, net_ack,
                 rcv_pc, rcv_seen, rcv_buf, delivered, acked_ok>>

\* sender, line 16-18: if (val) printf(...); and the loop goes round.
SndCheck ==
  /\ snd_pc = "L16"
  /\ snd_pc' = "L14"
  /\ UNCHANGED <<kernel_vars, snd_msg, snd_seq, snd_tries, snd_val, net_data, net_ack,
                 rcv_pc, rcv_seen, rcv_buf, delivered, acked_ok>>

\* The receiving kernel tells a retransmission by its sequence number.
RcvIsDuplicate(seq, seen) == seq <= seen

\* hf_recvack, blocked: a message is reassembled in the caller's buffer and its ACK
\* frame is transmitted.
RcvReassemble ==
  \E f \in net_data :
    /\ rcv_pc = "L30"
    /\ ~RcvIsDuplicate(f.seq, rcv_seen)
    /\ rcv_buf' = f.buf
    /\ rcv_seen' = f.seq
    /\ net_data' = net_data \ {f}
    /\ net_ack' = net_ack \cup {f.seq}
    /\ rcv_pc' = "L30ret"
    /\ UNCHANGED <<kernel_vars, snd_pc, snd_msg, snd_seq, snd_tries, snd_val,
                   delivered, acked_ok>>

\* hf_recvack returns OK to the receiver: one completion with the message in buf.
RcvReturn ==
  /\ rcv_pc = "L30ret"
  /\ delivered' = Append(delivered, rcv_buf)
  /\ rcv_pc' = "L31"
  /\ UNCHANGED <<kernel_vars, snd_pc, snd_msg, snd_seq, snd_tries, snd_val, net_data,
                 net_ack, rcv_seen, rcv_buf, acked_ok>>

\* The receiving kernel gets a retransmission of a message it has reassembled: the
\* ACK is transmitted again and the frame is dropped.
RcvDuplicate ==
  \E f \in net_data :
    /\ rcv_pc \in {"L30", "L30ret", "L31"}
    /\ RcvIsDuplicate(f.seq, rcv_seen)
    /\ net_data' = net_data \ {f}
    /\ net_ack' = net_ack \cup {f.seq}
    /\ UNCHANGED <<kernel_vars, snd_pc, snd_msg, snd_seq, snd_tries, snd_val,
                   rcv_pc, rcv_seen, rcv_buf, delivered, acked_ok>>

\* receiver, line 31-35: printf("%s", buf); and the loop goes round.
RcvPrint ==
  /\ rcv_pc = "L31"
  /\ rcv_pc' = "L30"
  /\ UNCHANGED <<kernel_vars, snd_pc, snd_msg, snd_seq, snd_tries, snd_val, net_data,
                 net_ack, rcv_seen, rcv_buf, delivered, acked_ok>>

\* The NoC loses a data frame or an ACK frame.
LoseData ==
  \E f \in net_data :
    /\ net_data' = net_data \ {f}
    /\ UNCHANGED <<kernel_vars, snd_pc, snd_msg, snd_seq, snd_tries, snd_val, net_ack,
                   rcv_pc, rcv_seen, rcv_buf, delivered, acked_ok>>

LoseAck ==
  \E a \in net_ack :
    /\ net_ack' = net_ack \ {a}
    /\ UNCHANGED <<kernel_vars, snd_pc, snd_msg, snd_seq, snd_tries, snd_val, net_data,
                   rcv_pc, rcv_seen, rcv_buf, delivered, acked_ok>>

\* Both nodes have booted and dispatched their application task.
NocInit ==
  /\ KernelInit
  /\ LibcIdle
  /\ snd_pc = "L10"
  /\ snd_msg = 0
  /\ snd_seq = 0
  /\ snd_tries = 0
  /\ snd_val = "none"
  /\ net_data = {}
  /\ net_ack = {}
  /\ rcv_pc = "L26"
  /\ rcv_seen = 0
  /\ rcv_buf = SenderBuf(-1)
  /\ delivered = <<>>
  /\ acked_ok = {}

SenderStep ==
  \/ SndCommCreate \/ SndFormat \/ SndTransmit \/ SndAck \/ SndDiscardAck
  \/ SndTimeout \/ SndCheck

ReceiverStep ==
  \/ RcvCommCreate \/ RcvReassemble \/ RcvReturn \/ RcvDuplicate \/ RcvPrint

NextNoc ==
  \/ SenderStep
  \/ ReceiverStep
  \/ LoseData
  \/ LoseAck

SpecNoc == NocInit /\ [][NextNoc]_vars

\* The sender task keeps being scheduled and the timer keeps ticking: a step of
\* the sender that stays possible is taken.
SpecNocFair == NocInit /\ [][NextNoc]_vars /\ WF_vars(SenderStep)

\* ---------------------------------------------------------------- libc
\* Two's complement words of WordBits bits.
WordSize == 2 ^ WordBits

WordMin == -(WordSize \div 2)

WordMax == (WordSize \div 2) - 1

\* Conversion to the unsigned type and arithmetic of the unsigned type.
ToUnsigned(x) == x % WordSize

\* Conversion to the signed type.
ToSigned(u) == IF u % WordSize >= WordSize \div 2 THEN (u % WordSize) - WordSize ELSE u % WordSize

\* -x on the signed type.
Negate(x) == ToSigned(0 - x)

\* The sign bit of an unsigned word is clear: (int64_t)den >= 0, !(den & (1L << 31)).
TopBitClear(u) == u < WordSize \div 2

\* __udivmoddi4, line 821-824: den and qbit are shifted left until the top bit of
\* den is set. The callers here pass den # 0 (line 817 is not taken).
RECURSIVE DiNormalise(_, _)
DiNormalise(den, qbit) ==
  IF TopBitClear(den)
  THEN DiNormalise(ToUnsigned(den * 2), ToUnsigned(qbit * 2))
  ELSE [den |-> den, qbit |-> qbit]

\* __udivmoddi4, line 826-833: the shift-and-subtract loop.
RECURSIVE DiDivide(_, _, _, _)
DiDivide(num, den, quot, qbit) ==
  IF qbit = 0
  THEN [quot |-> quot, rem |-> num]
  ELSE IF den <= num
       THEN DiDivide(num - den, den \div 2, ToUnsigned(quot + qbit), qbit \div 2)
       ELSE DiDivide(num, den \div 2, quot, qbit \div 2)

\* __udivmoddi4(num, den, rem_p): the quotient returned and the remainder stored.
udivmoddi4(num, den) ==
  LET n == DiNormalise(den, 1)
  IN DiDivide(num, n.den, 0, n.qbit)

\* __moddi3, line 852-870.
moddi3(num, den) ==
  LET n == IF num < 0 THEN Negate(num) ELSE num
      d == IF den < 0 THEN Negate(den) ELSE den
      minus == (num < 0) # (den < 0)
      v == ToSigned(udivmoddi4(ToUnsigned(n), ToUnsigned(d)).rem)
  IN IF minus THEN Negate(v) ELSE v

\* __divdi3, line 872-890.
divdi3(num, den) ==
  LET n == IF num < 0 THEN Negate(num) ELSE num
      d == IF den < 0 THEN Negate(den) ELSE den
      minus == (num < 0) # (den < 0)
      v == ToSigned(udivmoddi4(ToUnsigned(n), ToUnsigned(d)).quot)
  IN IF minus THEN Negate(v) ELSE v

\* __udivmodsi4, line 677-680.
RECURSIVE SiNormalise(_, _, _)
SiNormalise(num, den, bit) ==
  IF den < num /\ bit # 0 /\ TopBitClear(den)
  THEN SiNormalise(num, ToUnsigned(den * 2), ToUnsigned(bit * 2))
  ELSE [den |-> den, bit |-> bit]

\* __udivmodsi4, line 681-688.
RECURSIVE SiDivide(_, _, _, _)
SiDivide(num, den, res, bit) ==
  IF bit = 0
  THEN [res |-> res, num |-> num]
  ELSE IF num >= den
       THEN SiDivide(num - den, den \div 2, res + bit, bit \div 2)
       ELSE SiDivide(num, den \div 2, res, bit \div 2)

\* __udivmodsi4(num, den, modwanted).
udivmodsi4(num, den, modwanted) ==
  LET n == SiNormalise(num, den, 1)
      r == SiDivide(num, n.den, 0, n.bit)
  IN IF modwanted # 0 THEN r.num ELSE r.res

\* __modsi3, line 716-734.
modsi3(a, b) ==
  LET a1 == IF a < 0 THEN Negate(a) ELSE a
      b1 == IF b < 0 THEN Negate(b) ELSE b
      res == ToSigned(udivmodsi4(ToUnsigned(a1), ToUnsigned(b1), 1))
  IN IF a < 0 THEN Negate(res) ELSE res

\* The operands of a call: every pair of signed words with den # 0.
LibcInit ==
  /\ KernelInit
  /\ NocIdle
  /\ \E num \in WordMin .. WordMax, den \in (WordMin .. WordMax) \ {0} :
       divmod = [pc |-> "call", num |-> num, den |-> den, quot |-> 0, rem |-> 0, rem32 |-> 0]

\* q = num / den; r = num % den; on the 64-bit type, and a % b on the 32-bit type.
LibcDivMod ==
  /\ divmod.pc = "call"
  /\ divmod' = [divmod EXCEPT !.pc = "done",
                              !.quot = divdi3(divmod.num, divmod.den),
                              !.rem = moddi3(divmod.num, divmod.den),
                              !.rem32 = modsi3(divmod.num, divmod.den)]
  /\ UNCHANGED <<bootpc, panic_code, boot_errors, ie, krnl_schedule, krnl_current_task,
                 tick_time, tcb, pc, krnl_aperiodic_queue, ps_locals, dummy_i, hist_vars,
                 snd_pc, snd_msg, snd_seq, snd_tries, snd_val, net_data, net_ack,
                 rcv_pc, rcv_seen, rcv_buf, delivered, acked_ok>>

NextLibc == LibcDivMod

SpecLibc == LibcInit /\ [][NextLibc]_vars

\* ------------------------------------------------------------- claims
Server == TaskOf("polling_server_task")

Occurrences(q, e) == Cardinality({k \in 1 .. Len(q) : q[k] = e})

RunningTasks == {i \in Ids : tcb[i].state = "TASK_RUNNING"}

\* C1: one service step of the polling server (line 135-142), with fuel f > 0 and
\* a selected descriptor of capacity c: if f >= c the fuel becomes f - c and the
\* descriptor is not in the aperiodic queue afterwards; otherwise the descriptor's
\* capacity becomes c - f, the fuel becomes 0 and the descriptor is appended to the
\* tail of the queue, where it then occurs exactly once.
C1_ServiceStep ==
  [][ \A t \in Server :
        (pc[t] = "L135" /\ pc'[t] = "L144" /\ server_fuel > 0) =>
          LET f == server_fuel
              e == next_aperiodic
              c == tcb[e].capacity
          IN IF f >= c
             THEN /\ server_fuel' = f - c
                  /\ Occurrences(krnl_aperiodic_queue', e) = 0
             ELSE /\ tcb'[e].capacity = c - f
                  /\ server_fuel' = 0
                  /\ krnl_aperiodic_queue' = Append(krnl_aperiodic_queue, e)
                  /\ Occurrences(krnl_aperiodic_queue', e) = 1 ]_vars

\* C1 witness: the server has just served a descriptor it could not complete: the
\* fuel is spent and the descriptor, with capacity left, is the tail of the queue.
C1_Witness ==
  \E t \in Server :
    /\ pc[t] = "L144"
    /\ server_fuel = 0
    /\ krnl_aperiodic_queue # <<>>
    /\ krnl_aperiodic_queue[Len(krnl_aperiodic_queue)] = next_aperiodic
    /\ tcb[next_aperiodic].capacity > 0

\* C2: at the first pass of the server's loop in each of its periods the fuel is
\* reset to the server capacity, whatever it was before, and the fuel is not
\* refilled a second time within one period.
C2_RefillEachPeriod ==
  [][ \A t \in Server :
        (pc[t] = "L121" /\ pc'[t] = "L128") =>
          /\ last_poll < PeriodOf(tick_time) => server_fuel' = SERVER_CAPACITY
          /\ server_fuel' # server_fuel => last_refill < PeriodOf(tick_time) ]_vars

\* C3: the server yields at once on an empty queue, and no descriptor is served in
\* a later period with fuel left over from a period in which the server yielded on
\* an empty queue.
C3_NoCarryOver ==
  \A t \in Server :
    pc[t] = "L135" =>
      ~ (/\ yield_period # -1
         /\ yield_period < PeriodOf(tick_time)
         /\ server_fuel < SERVER_CAPACITY)

\* A descriptor of the scenario has been served to completion: it is out of the
\* queue with its capacity never cut, and its task has run.
ServedToCompletion(d) ==
  /\ Occurrences(krnl_aperiodic_queue, d) = 0
  /\ tcb[d].capacity = ScenarioCapacity
  /\ pc[d] = "L163"

\* C4: with the server of period 20 and capacity 6 and three descriptors of
\* capacity 2 in the aperiodic queue from tick 5, at tick 20 all three have been
\* served to completion and server_fuel is 0.
C4_Scenario ==
  (tick_time = ServerPeriod /\ arrivals = ScenarioTasks) =>
    /\ \A d \in TaskOf("dummy_task") : ServedToCompletion(d)
    /\ server_fuel = 0

\* C5: wherever a tick can be taken (interrupts enabled), exactly one TCB is
\* RUNNING and it is the one krnl_current_task names.
C5_OneRunning ==
  (bootpc = "run" /\ ie) => RunningTasks = {krnl_current_task}

\* C6: the server executes its operations on the aperiodic queue (the count of line
\* 128, the removal of line 133, the addtail of line 141) with interrupts disabled
\* or the scheduler locked.
C6_QueueOpsProtected ==
  \A t \in Server :
    (bootpc = "run" /\ OnCpu(t) /\ pc[t] \in {"L128", "L133", "L135"}) =>
      (~ie \/ krnl_schedule = 0)

\* C9: a failed bring-up step (a queue not created, an hf_spawn of main returning
\* an error) makes the kernel panic before the first task is dispatched.
C9_BootErrorsFatal ==
  bootpc \in {"run", "undefined"} => boot_errors = {}

\* C10: no task body reaches its end: line 163 closes dummy_task, the only body
\* that is not an endless loop.
C10_NeverReturns ==
  \A t \in Ids : pc[t] # "L163"


\* Completions of hf_recvack with message m, the one the receiving kernel has
\* reassembled and acknowledged but not yet returned included.
Completions(m) ==
  Occurrences(delivered, m) + (IF rcv_pc = "L30ret" /\ rcv_buf = m THEN 1 ELSE 0)

Messages == {SenderBuf(k) : k \in 0 .. MaxMsg}

C8_SendAckReturns ==
  (snd_pc \in {"L15", "wait"}) ~> (snd_pc = "L16")

\* C8 witness: an hf_sendack has returned COMM_TIMEOUT after all its retries, and
\* the sender has gone on to its next message.
C8_Witness ==
  /\ snd_val = "COMM_TIMEOUT"
  /\ snd_tries = RetryLimit
  /\ snd_pc = "L15"
  /\ snd_msg = 2

\* The idle task has not run yet: it is not spawned, or it is at its first line.
IdleNotRun == \A t \in TaskOf("idletask") : pc[t] = "L99"

\* C11: once main has taken the scheduler lock at line 196, before it initializes
\* any kernel state or spawns any task, the lock stays held until the idle task
\* releases it at its first run, nothing else releases it, and until then no tick
\* switches the running task.
C11_LockThroughBoot ==
  [][ /\ (bootpc' \notin {"L195", "L196"} /\ IdleNotRun') => krnl_schedule' = 0
      /\ (bootpc \in {"L195", "L196"}) =>
           (tcb' = clear_tcb /\ krnl_aperiodic_queue' = <<>> /\ TaskOf("idletask") = {})
      /\ krnl_schedule' # krnl_schedule =>
           \E t \in TaskOf("idletask") :
              /\ OnCpu(t)
              /\ pc[t] = "L99"
              /\ pc'[t] = "L105"
              /\ krnl_schedule' = 1
      /\ (bootpc = "run" /\ IdleNotRun) => krnl_current_task' = krnl_current_task ]_vars

\* C11 witness: boot is over, a tick has been taken with the lock still held, and
\* the idle task, still the running one, is about to release the lock.
C11_Witness ==
  /\ bootpc = "run"
  /\ tick_time > 0
  /\ krnl_schedule = 0
  /\ \E t \in TaskOf("idletask") : OnCpu(t) /\ pc[t] = "L99" /\ tcb[t].state = "TASK_RUNNING"

\* C12: once the server has initialized its locals, 0 <= server_fuel <=
\* SERVER_CAPACITY in every state, and a descriptor the server appends to the
\* aperiodic queue has a remaining capacity of at least 1.
C12_FuelBounds ==
  [][ \A t \in Server :
        /\ pc'[t] \notin {"none", "L111"} =>
             (0 <= server_fuel' /\ server_fuel' <= SERVER_CAPACITY')
        /\ (/\ pc[t] = "L135"
            /\ pc'[t] = "L144"
            /\ Len(krnl_aperiodic_queue') > Len(krnl_aperiodic_queue)) =>
             tcb'[krnl_aperiodic_queue'[Len(krnl_aperiodic_queue')]].capacity >= 1 ]_vars

\* C12 witness: the server has put a descriptor back for the second time: the fuel
\* is spent and the descriptor keeps the capacity of one more full service.
C12_Witness ==
  \E t \in Server :
    /\ pc[t] = "L144"
    /\ server_fuel = 0
    /\ Occurrences(krnl_aperiodic_queue, next_aperiodic) = 1
    /\ tcb[next_aperiodic].capacity = DummyCapacity - 2 * SERVER_CAPACITY

\* C14: every _di() of the server is paired with an _ei(status): when the server
\* is resumed through its saved context and goes on to its next loop iteration, it
\* has executed _ei(status) for the _di() of line 146.
C14_DiEiPaired ==
  [][ \A t \in Server :
        (pc[t] = "L150" /\ pc'[t] = "L121") => ~di_pending' ]_vars

\* C13: every descriptor in the aperiodic queue, the ones of capacity 18 against
\* the server capacity of 6 included, is in the end selected with enough fuel and
\* leaves the queue for good.
C13_EventuallyServed ==
  \A d \in Ids :
    (Occurrences(krnl_aperiodic_queue, d) > 0) ~> [](Occurrences(krnl_aperiodic_queue, d) = 0)

\* C13 witness: a descriptor admitted with capacity 18 has been put back twice and
\* is now served with the fuel covering what remained of it; it is out of the queue.
C13_Witness ==
  \E t \in Server :
    /\ pc[t] = "L144"
    /\ server_fuel = 0
    /\ Occurrences(krnl_aperiodic_queue, next_aperiodic) = 0
    /\ tcb[next_aperiodic].capacity = DummyCapacity - 2 * SERVER_CAPACITY

\* C15: for signed num and den with den # 0 and neither the most negative word,
\* __divdi3(num, den) * den + __moddi3(num, den) = num, and __moddi3 returns the
\* remainder __modsi3 returns for the same operands (its sign is the dividend's).
C15_DivModRelation ==
  (divmod.pc = "done" /\ divmod.num # WordMin /\ divmod.den # WordMin) =>
    /\ divmod.quot * divmod.den + divmod.rem = divmod.num
    /\ divmod.rem = divmod.rem32

====
